---- MODULE Spec2Model ----
(***************************************************************************)
(* State-machine model of the toonmu backend (src/index.js, and the        *)
(* single-provider variant src/unnamed/part_000).                          *)
(*                                                                         *)
(* One action is one synchronous segment of a handler: the code between    *)
(* two awaits, together with the effect of the remote call it resumes      *)
(* from.  The database table toon_creations, the storage bucket            *)
(* 'creations' and the two image providers are the environment; every      *)
(* outcome of a remote call that the code can observe is drawn with \E.    *)
(***************************************************************************)
EXTENDS Integers, Sequences, FiniteSets, TLC

\* ------------------------------------------------------------ bounds
MaxSubmits == 1     \* POST /generate-toon requests that pass validation

\* ------------------------------------------------------------ values
Undefined == "<undefined>"      \* a JS value that is absent
Null == "<null>"                \* an SQL column that was never written

ImageDataUrl == "data:image/png;base64,QUJD"
StylePrompt == "anime"
UserId == "u1"

\* What a client may put in each of the three body fields.
ImageDataUrls == {Undefined, "", ImageDataUrl}
StylePrompts == {Undefined, "", StylePrompt}
UserIds == {Undefined, "", UserId}
\* JS truthiness of the values above: !x holds of undefined and of "".
Falsy(x) == x \in {Undefined, ""}

\* The request bodies tried: all three fields present, exactly one of them
\* missing or empty, and the empty body {}.
Bodies ==
    {b \in [imageDataUrl : ImageDataUrls, stylePrompt : StylePrompts, userId : UserIds] :
        \/ Cardinality({f \in {"imageDataUrl", "stylePrompt", "userId"} : Falsy(b[f])}) <= 1
        \/ \A f \in {"imageDataUrl", "stylePrompt", "userId"} : b[f] = Undefined}

\* The bodies that pass the validation of line 99.
ValidBodies ==
    {b \in Bodies : ~(Falsy(b.imageDataUrl) \/ Falsy(b.stylePrompt) \/ Falsy(b.userId))}

\* a || b
OrElse(a, b) == IF Falsy(a) THEN b ELSE a

\* The two builds of the server.
Deployments == {"index.js", "part_000"}

\* ------------------------------------------------------------ providers
\* Buffer.from(s, 'base64') on the payloads the providers return here.
Base64Decode(s) == CASE s = "QUJD" -> "ABC"
                     [] s = "WFla" -> "XYZ"
                     [] OTHER -> ""

\* The prompt both providers are given.
UserText(stylePrompt) ==
    "Restyle this image in the following art style: " \o stylePrompt
        \o ". Keep composition, subjects, and details."

Bytes(b) == [ok |-> TRUE, value |-> b]
Thrown(m) == [ok |-> FALSE, message |-> m]

\* What the OpenAI endpoint answers here: a non-2xx answer without and with
\* error.message, a 2xx answer without and with an image_generation_call
\* result.  (net and json say whether fetch() and r.json() reject.)
OpenAIResponses ==
    [net : {"ok"}, json : {"ok"}, ok : {FALSE},
     errorMessage : {Undefined, "Rate limit reached"}, result : {Undefined}]
    \cup [net : {"ok"}, json : {"ok"}, ok : {TRUE},
          errorMessage : {Undefined}, result : {Undefined, "QUJD"}]

NoImageMessage(deployment) ==
    IF deployment = "index.js" THEN "OpenAI: no image result"
    ELSE "Could not find generated image in OpenAI response."

\* generateWithOpenAI (index.js); lines 19-50 of part_000 are the same
\* steps inlined, with another message for the missing image.
generateWithOpenAI(deployment, r) ==
    IF r.net = "reject" THEN Thrown("fetch failed")
    ELSE IF r.json = "bad" THEN Thrown("Unexpected token < in JSON at position 0")
    ELSE IF ~r.ok THEN Thrown(OrElse(r.errorMessage, "OpenAI API request failed"))
    ELSE IF Falsy(r.result) THEN Thrown(NoImageMessage(deployment))
    ELSE Bytes(Base64Decode(r.result))

\* What fal.subscribe and the download of the image it names answer here:
\* no image url, a download that is not ok, a download that is.
FALResponses ==
    [subscribe : {"ok"}, url : {Undefined}, net : {"ok"}, ok : {FALSE}, body : {""}]
    \cup [subscribe : {"ok"}, url : {"https://fal.media/files/out.png"},
          net : {"ok"}, ok : {FALSE, TRUE}, body : {"XYZ"}]

generateWithFALKontext(r) ==
    IF r.subscribe = "reject" THEN Thrown("Unprocessable Entity")
    ELSE IF Falsy(r.url) THEN Thrown("FAL: no image url")
    ELSE IF r.net = "reject" THEN Thrown("fetch failed")
    ELSE IF ~r.ok THEN Thrown("FAL: fetch image failed")
    ELSE Bytes(r.body)

\* ------------------------------------------------------------ storage
\* `${userId}/${creationId}.png`
FilePath(userId, creationId) == userId \o "/" \o ToString(creationId) \o ".png"

\* supabase.storage.from('creations').getPublicUrl(filePath)
PublicUrl(filePath) ==
    "https://project.supabase.co/storage/v1/object/public/creations/" \o filePath

\* storage.upload(): stored, an {error} value, or a rejected promise.
UploadOutcomes ==
    {[kind |-> "ok", message |-> Undefined],
     [kind |-> "error", message |-> "The object exceeded the maximum allowed size"],
     [kind |-> "reject", message |-> "fetch failed"]}

\* upload(filePath, bytes, {upsert: true}) on the bucket
Upsert(b, filePath, bytes) ==
    [p \in DOMAIN b \cup {filePath} |-> IF p = filePath THEN bytes ELSE b[p]]

\* ------------------------------------------------------------ table
Statuses == {"pending", "completed", "failed"}

\* NewRow with another status string than the one polls and updates expect.
NewRowProcessing(userId, stylePrompt) ==
    [user_id |-> userId, style_name |-> stylePrompt, status |-> "processing",
     image_url |-> Null, error_message |-> Null]

\* NewRow with the two columns swapped.
NewRowSwapped(userId, stylePrompt) ==
    [user_id |-> stylePrompt, style_name |-> userId, status |-> "pending",
     image_url |-> Null, error_message |-> Null]

\* .insert({user_id, style_name, status: 'pending'})
NewRow(userId, stylePrompt) ==
    [user_id |-> userId, style_name |-> stylePrompt, status |-> "pending",
     image_url |-> Null, error_message |-> Null]

\* .insert(...).select('id').single(): committed with the new id, or an error.
InsertOutcomes == {"ok", "error"}

\* UpdateCompleted with image_url left out of the patch.
UpdateCompletedStatusOnly(t, creationId, publicUrl) ==
    [i \in DOMAIN t |->
        IF i = creationId THEN [t[i] EXCEPT !.status = "completed"] ELSE t[i]]

\* .update(patch).eq('id', creationId) as the database applies it
UpdateCompleted(t, creationId, publicUrl) ==
    [i \in DOMAIN t |->
        IF i = creationId
        THEN [t[i] EXCEPT !.status = "completed", !.image_url = publicUrl]
        ELSE t[i]]

\* UpdateFailed without the .eq('id', creationId) filter: every row is
\* patched.
UpdateFailedEveryRow(t, creationId, message) ==
    [i \in DOMAIN t |-> [t[i] EXCEPT !.status = "failed", !.error_message = message]]

UpdateFailed(t, creationId, message) ==
    [i \in DOMAIN t |->
        IF i = creationId
        THEN [t[i] EXCEPT !.status = "failed", !.error_message = message]
        ELSE t[i]]

\* An awaited .update(): "ok" applied; "error" an {error} value, nothing
\* applied; "reject" the promise rejects, nothing applied; "reject_applied"
\* the row was written and the promise rejects all the same (the answer is
\* lost after the commit).
WriteOutcomes == {"ok", "error", "reject", "reject_applied"}
WriteApplied(o) == o \in {"ok", "reject_applied"}
WriteRejects(o) == o \in {"reject", "reject_applied"}
WriteRejectMessage == "TypeError: fetch failed"

\* .select('*').eq('id', id).single(): the row, no row, or a read error.
SelectOutcomes == {"ok", "error"}

\* ------------------------------------------------------------ state
VARIABLES
    deployment,     \* which build is running
    table,          \* toon_creations: creation id -> row
    bucket,         \* storage bucket 'creations': path -> bytes
    req,            \* POST /generate-toon handlers
    run,            \* processGeneration calls: creation id -> locals and position
    sent,           \* the HTTP response the last step wrote, if it wrote one
    hist            \* per creation id, the remote calls its run has made

vars == <<deployment, table, bucket, req, run, sent, hist>>

Submits == 1..MaxSubmits
\* ids a client may poll: every id the table can hand out, and one it cannot
PollIds == 1..(MaxSubmits + 1)
\* ids the table can hand out
Ids == 1..MaxSubmits

\* a JS null or undefined where an object may stand
None == [none |-> TRUE]
NoBody == [imageDataUrl |-> Undefined, stylePrompt |-> Undefined, userId |-> Undefined]
Response(status, body) == [status |-> status, body |-> body]

IdleSubmit == [pc |-> "idle", body |-> NoBody, result |-> None]
\* sent: which handler answered, what it was asked, what it answered
NothingSent == [handler |-> "none"]
SubmitSent(body, res) == [handler |-> "POST /generate-toon", body |-> body, res |-> res]
PollSent(id, outcome, res) ==
    [handler |-> "GET /creation-status/:id", id |-> id, select |-> outcome, res |-> res]

\* the id the table's sequence gives the next inserted row
NextId(t) == Cardinality(DOMAIN t) + 1

Init ==
    /\ deployment \in Deployments
    /\ table = <<>>
    /\ bucket = <<>>
    /\ req = [r \in Submits |-> IdleSubmit]
    /\ run = <<>>
    /\ sent = NothingSent
    /\ hist = <<>>

\* ------------------------------------------------------------ POST /generate-toon
\* SubmitRequest with userId left out of the validation.
SubmitRequestUserIdUnchecked(r, body) ==
    /\ IF Falsy(body.imageDataUrl) \/ Falsy(body.stylePrompt)
       THEN /\ sent' = SubmitSent(body, Response(400,
                           [error |-> "Missing imageDataUrl, stylePrompt, or userId"]))
            /\ req' = req
       ELSE /\ req[r].pc = "idle"
            /\ req' = [req EXCEPT ![r] = [@ EXCEPT !.pc = "insert", !.body = body]]
            /\ sent' = NothingSent
    /\ UNCHANGED <<deployment, table, bucket, run, hist>>

\* Lines 95-112: destructure the body, validate, issue the insert.  A
\* request that fails validation is answered in the same segment.
SubmitRequest(r, body) ==
    /\ IF Falsy(body.imageDataUrl) \/ Falsy(body.stylePrompt) \/ Falsy(body.userId)
       THEN /\ sent' = SubmitSent(body, Response(400,
                           [error |-> "Missing imageDataUrl, stylePrompt, or userId"]))
            /\ req' = req
       ELSE /\ req[r].pc = "idle"
            /\ req' = [req EXCEPT ![r] = [@ EXCEPT !.pc = "insert", !.body = body]]
            /\ sent' = NothingSent
    /\ UNCHANGED <<deployment, table, bucket, run, hist>>

\* The database executes the insert issued at lines 104-112.
SubmitInsert(r, outcome) ==
    /\ req[r].pc = "insert"
    /\ IF outcome = "ok"
       THEN /\ table' = table @@
                (NextId(table) :> NewRow(req[r].body.userId, req[r].body.stylePrompt))
            /\ req' = [req EXCEPT ![r] = [@ EXCEPT !.pc = "inserted",
                           !.result = [data |-> [id |-> NextId(table)], error |-> Null]]]
       ELSE /\ table' = table
            /\ req' = [req EXCEPT ![r] = [@ EXCEPT !.pc = "inserted",
                           !.result = [data |-> None,
                                       error |-> "duplicate key value violates unique constraint"]]]
    /\ sent' = NothingSent
    /\ UNCHANGED <<deployment, bucket, run, hist>>

\* processGeneration(creationId, imageDataUrl, stylePrompt, userId) up to its
\* first await: the request to the primary provider is on its way.
StartRun(imageDataUrl, stylePrompt, userId) ==
    [pc |-> "primary", imageDataUrl |-> imageDataUrl, stylePrompt |-> stylePrompt,
     userId |-> userId, imageBuffer |-> Undefined, error |-> Undefined]

ProviderCall(imageDataUrl, stylePrompt) ==
    [image_url |-> imageDataUrl, prompt |-> UserText(stylePrompt), result |-> None]

\* What is remembered of a run: the submit handler that started it, how
\* many times processGeneration was called for its id, and its calls.
StartHist(r, imageDataUrl, stylePrompt) ==
    [request |-> r, starts |-> 1,
     primary |-> <<ProviderCall(imageDataUrl, stylePrompt)>>,
     fallback |-> <<>>, upload |-> <<>>, writes |-> <<>>]

\* Line 126: processGeneration(creationId, ...) is called by handler r.
Launch(h, creationId, r, imageDataUrl, stylePrompt) ==
    IF creationId \in DOMAIN h
    THEN [h EXCEPT ![creationId].starts = @ + 1]
    ELSE h @@ (creationId :> StartHist(r, imageDataUrl, stylePrompt))

\* SubmitContinue without the `if (error)` branch: the id is read with
\* optional chaining and the request is accepted whatever the insert said.
SubmitContinueIgnoresError(r) ==
    /\ req[r].pc = "inserted"
    /\ req' = [req EXCEPT ![r] = [@ EXCEPT !.pc = "done", !.body = NoBody]]
    /\ LET creationId == IF req[r].result.error # Null THEN 0
                         ELSE req[r].result.data.id
           b == req[r].body
       IN  /\ sent' = SubmitSent(b, Response(202, [creationId |-> creationId]))
           /\ run' = run @@
                (creationId :> StartRun(b.imageDataUrl, b.stylePrompt, b.userId))
           /\ hist' = Launch(hist, creationId, r, b.imageDataUrl, b.stylePrompt)
    /\ UNCHANGED <<deployment, table, bucket>>

\* SubmitContinue with processGeneration called a second time for the same
\* id (a call left over before the response is written).
SubmitContinueStartsTwice(r) ==
    /\ req[r].pc = "inserted"
    /\ req' = [req EXCEPT ![r] = [@ EXCEPT !.pc = "done", !.body = NoBody]]
    /\ IF req[r].result.error # Null
       THEN /\ sent' = SubmitSent(req[r].body, Response(500,
                           [error |-> "Could not create generation record."]))
            /\ UNCHANGED <<run, hist>>
       ELSE LET creationId == req[r].result.data.id
                b == req[r].body
            IN  /\ sent' = SubmitSent(b, Response(202, [creationId |-> creationId]))
                /\ run' = run @@
                     (creationId :> StartRun(b.imageDataUrl, b.stylePrompt, b.userId))
                /\ hist' = Launch(Launch(hist, creationId, r, b.imageDataUrl, b.stylePrompt),
                                  creationId, r, b.imageDataUrl, b.stylePrompt)
    /\ UNCHANGED <<deployment, table, bucket>>

\* Lines 114-126: the insert has answered; 500, or 202 and the detached call.
SubmitContinue(r) ==
    /\ req[r].pc = "inserted"
    /\ req' = [req EXCEPT ![r] = [@ EXCEPT !.pc = "done", !.body = NoBody]]
    /\ IF req[r].result.error # Null
       THEN /\ sent' = SubmitSent(req[r].body, Response(500,
                           [error |-> "Could not create generation record."]))
            /\ UNCHANGED <<run, hist>>
       ELSE LET creationId == req[r].result.data.id
                b == req[r].body
            IN  /\ sent' = SubmitSent(b, Response(202, [creationId |-> creationId]))
                /\ run' = run @@
                     (creationId :> StartRun(b.imageDataUrl, b.stylePrompt, b.userId))
                /\ hist' = Launch(hist, creationId, r, b.imageDataUrl, b.stylePrompt)
    /\ UNCHANGED <<deployment, table, bucket>>

\* ------------------------------------------------------------ processGeneration
\* The last call of a sequence of calls, with its result filled in.
Answered(calls, result) ==
    [calls EXCEPT ![Len(calls)] = [@ EXCEPT !.result = result]]

\* Lines 79-84: the catch block logs and issues the 'failed' update.
Catch(r, message) == [r EXCEPT !.pc = "failed_write", !.error = message]

\* Lines 65-69: the bytes are in hand, the upload is issued.
ToUpload(r, bytes) == [r EXCEPT !.pc = "upload", !.imageBuffer = bytes]

\* Lines 59-63 (part_000: 30-46): the primary provider has answered.  A
\* failure goes to the fallback provider in index.js and to the catch block
\* in part_000.
PrimaryReturns(id, response) ==
    /\ id \in DOMAIN run
    /\ run[id].pc = "primary"
    /\ LET out == generateWithOpenAI(deployment, response)
       IN  /\ IF out.ok
              THEN /\ run' = [run EXCEPT ![id] = ToUpload(@, out.value)]
                   /\ hist' = [hist EXCEPT ![id].primary = Answered(@, out),
                                          ![id].upload = <<[path |->
                                              FilePath(run[id].userId, id),
                                              bytes |-> out.value, result |-> None]>>]
              ELSE IF deployment = "index.js"
              THEN /\ run' = [run EXCEPT ![id].pc = "fallback"]
                   /\ hist' = [hist EXCEPT ![id].primary = Answered(@, out),
                                          ![id].fallback = <<ProviderCall(
                                              run[id].imageDataUrl, run[id].stylePrompt)>>]
              ELSE /\ run' = [run EXCEPT ![id] = Catch(@, out.message)]
                   /\ hist' = [hist EXCEPT ![id].primary = Answered(@, out)]
    /\ sent' = NothingSent
    /\ UNCHANGED <<deployment, table, bucket, req>>

\* FallbackReturns with the primary's error rethrown after the fallback
\* answered: the bytes are dropped and the catch block runs.
FallbackReturnsRethrows(id, response) ==
    /\ id \in DOMAIN run
    /\ run[id].pc = "fallback"
    /\ LET out == generateWithFALKontext(response)
       IN  /\ run' = [run EXCEPT ![id] =
                        Catch(@, hist[id].primary[1].result.message)]
           /\ hist' = [hist EXCEPT ![id].fallback = Answered(@, out)]
    /\ sent' = NothingSent
    /\ UNCHANGED <<deployment, table, bucket, req>>

\* Line 62: the fallback provider has answered (index.js only).
FallbackReturns(id, response) ==
    /\ id \in DOMAIN run
    /\ run[id].pc = "fallback"
    /\ LET out == generateWithFALKontext(response)
       IN  IF out.ok
           THEN /\ run' = [run EXCEPT ![id] = ToUpload(@, out.value)]
                /\ hist' = [hist EXCEPT ![id].fallback = Answered(@, out),
                                       ![id].upload = <<[path |->
                                           FilePath(run[id].userId, id),
                                           bytes |-> out.value, result |-> None]>>]
           ELSE /\ run' = [run EXCEPT ![id] = Catch(@, out.message)]
                /\ hist' = [hist EXCEPT ![id].fallback = Answered(@, out)]
    /\ sent' = NothingSent
    /\ UNCHANGED <<deployment, table, bucket, req>>

\* UploadReturns without `if (uploadError) throw uploadError`: an {error}
\* value of the upload is not looked at.
UploadReturnsUnchecked(id, outcome) ==
    /\ id \in DOMAIN run
    /\ run[id].pc = "upload"
    /\ LET filePath == FilePath(run[id].userId, id)
       IN  IF outcome.kind = "ok"
           THEN /\ bucket' = Upsert(bucket, filePath, run[id].imageBuffer)
                /\ run' = [run EXCEPT ![id].pc = "completed_write"]
           ELSE /\ bucket' = bucket
                /\ run' = IF outcome.kind = "error"
                          THEN [run EXCEPT ![id].pc = "completed_write"]
                          ELSE [run EXCEPT ![id] = Catch(@, outcome.message)]
    /\ hist' = [hist EXCEPT ![id].upload = Answered(@, outcome)]
    /\ sent' = NothingSent
    /\ UNCHANGED <<deployment, table, req>>

\* Lines 67-76: the upload has answered; on success the public URL is
\* resolved and the 'completed' update is issued.
UploadReturns(id, outcome) ==
    /\ id \in DOMAIN run
    /\ run[id].pc = "upload"
    /\ LET filePath == FilePath(run[id].userId, id)
       IN  IF outcome.kind = "ok"
           THEN /\ bucket' = Upsert(bucket, filePath, run[id].imageBuffer)
                /\ run' = [run EXCEPT ![id].pc = "completed_write"]
           ELSE /\ bucket' = bucket
                /\ run' = [run EXCEPT ![id] = Catch(@, outcome.message)]
    /\ hist' = [hist EXCEPT ![id].upload = Answered(@, outcome)]
    /\ sent' = NothingSent
    /\ UNCHANGED <<deployment, table, req>>

\* Lines 73-77: the 'completed' update has answered.  Its {error} value is
\* not looked at; a rejection lands in the catch block.
CompletedWriteReturns(id, outcome) ==
    /\ id \in DOMAIN run
    /\ run[id].pc = "completed_write"
    /\ table' = IF WriteApplied(outcome)
                THEN UpdateCompleted(table, id,
                         PublicUrl(FilePath(run[id].userId, id)))
                ELSE table
    /\ run' = IF WriteRejects(outcome)
              THEN [run EXCEPT ![id] = Catch(@, WriteRejectMessage)]
              ELSE [run EXCEPT ![id].pc = "resolved"]
    /\ hist' = [hist EXCEPT ![id].writes =
                    Append(@, [status |-> "completed", outcome |-> outcome])]
    /\ sent' = NothingSent
    /\ UNCHANGED <<deployment, bucket, req>>

\* Lines 81-85: the 'failed' update has answered.  Nothing catches its
\* rejection: the promise processGeneration returned rejects.
FailedWriteReturns(id, outcome) ==
    /\ id \in DOMAIN run
    /\ run[id].pc = "failed_write"
    /\ table' = IF WriteApplied(outcome)
                THEN UpdateFailed(table, id, run[id].error)
                ELSE table
    /\ run' = IF WriteRejects(outcome)
              THEN [run EXCEPT ![id].pc = "rejected"]
              ELSE [run EXCEPT ![id].pc = "resolved"]
    /\ hist' = [hist EXCEPT ![id].writes =
                    Append(@, [status |-> "failed", outcome |-> outcome])]
    /\ sent' = NothingSent
    /\ UNCHANGED <<deployment, bucket, req>>

\* ------------------------------------------------------------ GET /creation-status/:id
\* Select without the .eq('id', id) filter: with one row in the table,
\* .single() returns that row whatever id was asked for.
SelectUnfiltered(t, id, outcome) ==
    IF outcome = "ok" /\ Cardinality(DOMAIN t) = 1
    THEN LET only == CHOOSE i \in DOMAIN t : TRUE
         IN  [data |-> [id |-> only] @@ t[only], error |-> Null]
    ELSE [data |-> None, error |-> IF outcome = "ok"
                                   THEN "JSON object requested, multiple (or no) rows returned"
                                   ELSE "connection error"]

\* .select('*').eq('id', id).single() as the database answers it: .single()
\* turns "no row" into an error.
Select(t, id, outcome) ==
    IF outcome = "ok" /\ id \in DOMAIN t
    THEN [data |-> [id |-> id] @@ t[id], error |-> Null]
    ELSE [data |-> None, error |-> IF outcome = "ok"
                                   THEN "JSON object requested, multiple (or no) rows returned"
                                   ELSE "connection error"]

\* Lines 139-143: 404 or 200 with the row.
PollResponse(answer) ==
    IF answer.error # Null \/ answer.data = None
    THEN Response(404, [error |-> "Creation not found."])
    ELSE Response(200, answer.data)

\* PollCreationStatus that gives up on a job it finds pending: the handler
\* marks the row failed before answering.
PollCreationStatusReaps(id, outcome) ==
    /\ sent' = PollSent(id, outcome, PollResponse(Select(table, id, outcome)))
    /\ table' = IF outcome = "ok" /\ id \in DOMAIN table /\ table[id].status = "pending"
                THEN UpdateFailed(table, id, "Timed out.")
                ELSE table
    /\ UNCHANGED <<deployment, bucket, req, run, hist>>

\* Lines 130-143, at the instant the database executes the select: the
\* handler has no state but :id, and its response is written from what the
\* select read.
PollCreationStatus(id, outcome) ==
    /\ sent' = PollSent(id, outcome, PollResponse(Select(table, id, outcome)))
    /\ UNCHANGED <<deployment, table, bucket, req, run, hist>>

\* ------------------------------------------------------------ specification
Next ==
    \/ \E r \in Submits, body \in Bodies : SubmitRequest(r, body)
    \/ \E r \in Submits, o \in InsertOutcomes : SubmitInsert(r, o)
    \/ \E r \in Submits : SubmitContinue(r)
    \/ \E id \in Ids, response \in OpenAIResponses : PrimaryReturns(id, response)
    \/ \E id \in Ids, response \in FALResponses : FallbackReturns(id, response)
    \/ \E id \in Ids, o \in UploadOutcomes : UploadReturns(id, o)
    \/ \E id \in Ids, o \in WriteOutcomes : CompletedWriteReturns(id, o)
    \/ \E id \in Ids, o \in WriteOutcomes : FailedWriteReturns(id, o)
    \/ \E id \in PollIds, o \in SelectOutcomes : PollCreationStatus(id, o)

Spec == Init /\ [][Next]_vars

\* ------------------------------------------------------------ process exit
\* The positions at which a run is waiting for a remote call.
InProgress == {"primary", "fallback", "upload", "completed_write", "failed_write"}

\* Exit that marks the jobs it interrupts as failed (a shutdown hook).
ExitMarksFailed ==
    /\ run' = [id \in DOMAIN run |->
                 IF run[id].pc \in InProgress
                 THEN [run[id] EXCEPT !.pc = "abandoned at " \o @]
                 ELSE run[id]]
    /\ req' = [r \in DOMAIN req |->
                 IF req[r].pc = "insert" THEN [req[r] EXCEPT !.pc = "abandoned at insert"]
                 ELSE IF req[r].pc = "inserted" THEN [req[r] EXCEPT !.pc = "aborted"]
                 ELSE req[r]]
    /\ table' = [id \in DOMAIN table |->
                   IF id \in DOMAIN run /\ run[id].pc \in InProgress
                   THEN [table[id] EXCEPT !.status = "failed",
                                          !.error_message = "Server shut down."]
                   ELSE table[id]]
    /\ sent' = NothingSent
    /\ UNCHANGED <<deployment, bucket, hist>>

\* The server process exits (and is started again, lines 146-149): every
\* handler and every processGeneration call waiting at an await is gone with
\* the process's memory.  The requests they had issued are still with the
\* remote services; the table and the bucket are not touched.
Exit ==
    /\ run' = [id \in DOMAIN run |->
                 IF run[id].pc \in InProgress
                 THEN [run[id] EXCEPT !.pc = "abandoned at " \o @]
                 ELSE run[id]]
    /\ req' = [r \in DOMAIN req |->
                 IF req[r].pc = "insert" THEN [req[r] EXCEPT !.pc = "abandoned at insert"]
                 ELSE IF req[r].pc = "inserted" THEN [req[r] EXCEPT !.pc = "aborted"]
                 ELSE req[r]]
    /\ sent' = NothingSent
    /\ UNCHANGED <<deployment, table, bucket, hist>>

\* The storage or the database executes a request that an abandoned run had
\* issued before the process exited (lines 67-69, 73-76, 81-84); nobody
\* receives the answer.
OrphanCall(id) ==
    /\ id \in DOMAIN run
    /\ run[id].pc \in {"abandoned at upload", "abandoned at completed_write",
                       "abandoned at failed_write"}
    /\ bucket' = IF run[id].pc = "abandoned at upload"
                 THEN Upsert(bucket, FilePath(run[id].userId, id), run[id].imageBuffer)
                 ELSE bucket
    /\ table' = IF run[id].pc = "abandoned at completed_write"
                THEN UpdateCompleted(table, id, PublicUrl(FilePath(run[id].userId, id)))
                ELSE IF run[id].pc = "abandoned at failed_write"
                THEN UpdateFailed(table, id, run[id].error)
                ELSE table
    /\ run' = [run EXCEPT ![id].pc =
                 IF @ = "abandoned at upload" THEN "abandoned after upload"
                 ELSE "abandoned after status write"]
    /\ sent' = NothingSent
    /\ UNCHANGED <<deployment, req, hist>>

\* The database executes the insert of a handler that is gone (lines
\* 104-112): the row exists, no response was written and no run is started.
OrphanInsert(r) ==
    /\ req[r].pc = "abandoned at insert"
    /\ table' = table @@
         (NextId(table) :> NewRow(req[r].body.userId, req[r].body.stylePrompt))
    /\ req' = [req EXCEPT ![r].pc = "aborted"]
    /\ sent' = NothingSent
    /\ UNCHANGED <<deployment, bucket, run, hist>>

\* Requests that fail validation reach no await and leave nothing behind
\* for an exit to interrupt: the submits taken here are the valid ones.
CrashNext ==
    \/ \E r \in Submits, body \in ValidBodies : SubmitRequest(r, body)
    \/ \E r \in Submits, o \in InsertOutcomes : SubmitInsert(r, o)
    \/ \E r \in Submits : SubmitContinue(r)
    \/ \E id \in Ids, response \in OpenAIResponses : PrimaryReturns(id, response)
    \/ \E id \in Ids, response \in FALResponses : FallbackReturns(id, response)
    \/ \E id \in Ids, o \in UploadOutcomes : UploadReturns(id, o)
    \/ \E id \in Ids, o \in WriteOutcomes : CompletedWriteReturns(id, o)
    \/ \E id \in Ids, o \in WriteOutcomes : FailedWriteReturns(id, o)
    \/ \E id \in PollIds, o \in SelectOutcomes : PollCreationStatus(id, o)
    \/ Exit
    \/ \E id \in Ids : OrphanCall(id)
    \/ \E r \in Submits : OrphanInsert(r)

\* The server with process exits and restarts.
CrashSpec == Init /\ [][CrashNext]_vars

\* ------------------------------------------------------------ concurrent jobs
MaxJobs == 2        \* jobs submitted and processed side by side

Jobs == 1..MaxJobs

ConcurrentInit ==
    /\ deployment \in Deployments
    /\ table = <<>>
    /\ bucket = <<>>
    /\ req = [r \in Jobs |-> IdleSubmit]
    /\ run = <<>>
    /\ sent = NothingSent
    /\ hist = <<>>

\* MaxJobs valid submits and the runs they start, their steps interleaved
\* at every await.
ConcurrentNext ==
    \/ \E r \in Jobs, body \in ValidBodies : SubmitRequest(r, body)
    \/ \E r \in Jobs, o \in InsertOutcomes : SubmitInsert(r, o)
    \/ \E r \in Jobs : SubmitContinue(r)
    \/ \E id \in Jobs, response \in OpenAIResponses : PrimaryReturns(id, response)
    \/ \E id \in Jobs, response \in FALResponses : FallbackReturns(id, response)
    \/ \E id \in Jobs, o \in UploadOutcomes : UploadReturns(id, o)
    \/ \E id \in Jobs, o \in WriteOutcomes : CompletedWriteReturns(id, o)
    \/ \E id \in Jobs, o \in WriteOutcomes : FailedWriteReturns(id, o)

ConcurrentSpec == ConcurrentInit /\ [][ConcurrentNext]_vars

\* ------------------------------------------------------------ vocabulary of the claims
Started(id) == id \in DOMAIN run
Settled(id) == Started(id) /\ run[id].pc \in {"resolved", "rejected"}

\* a provider call of the sequence has answered with bytes / with an error
Succeeded(calls) ==
    \E k \in 1..Len(calls) : calls[k].result # None /\ calls[k].result.ok
Failed(calls) ==
    \E k \in 1..Len(calls) : calls[k].result # None /\ ~calls[k].result.ok

\* the upload has answered: stored / an error value or a rejection
UploadStored(id) ==
    \E k \in 1..Len(hist[id].upload) :
        hist[id].upload[k].result # None /\ hist[id].upload[k].result.kind = "ok"
UploadFailed(id) ==
    \E k \in 1..Len(hist[id].upload) :
        hist[id].upload[k].result # None /\ hist[id].upload[k].result.kind # "ok"

\* every status write the run has issued was applied and answered without error
WritesSucceeded(id) ==
    /\ Len(hist[id].writes) > 0
    /\ \A k \in 1..Len(hist[id].writes) : hist[id].writes[k].outcome = "ok"

\* ------------------------------------------------------------ C1
\* C1 (as claimed): every row is created with status pending; a row's status
\* changes at most once, from pending to completed or to failed; and a row
\* whose status is completed or failed is never changed again, whatever the
\* providers, the upload and the status writes answer.
C1_RowWrittenOnce ==
    [][\A id \in Ids :
        /\ (id \notin DOMAIN table /\ id \in DOMAIN table')
              => table'[id].status = "pending"
        /\ (id \in DOMAIN table /\ table[id].status = "pending")
              => \/ table'[id] = table[id]
                 \/ table'[id].status \in {"completed", "failed"}
        /\ (id \in DOMAIN table /\ table[id].status \in {"completed", "failed"})
              => table'[id] = table[id]]_vars

\* ------------------------------------------------------------ C2
\* C2 (as claimed): in every state, a row has image_url only if its status is
\* completed, error_message only if its status is failed, and never both.
C2_UrlAndErrorExclusive ==
    \A id \in DOMAIN table :
        /\ table[id].image_url # Null => table[id].status = "completed"
        /\ table[id].error_message # Null => table[id].status = "failed"
        /\ ~(table[id].image_url # Null /\ table[id].error_message # Null)

\* ------------------------------------------------------------ C3
IsPoll(s) == s.handler = "GET /creation-status/:id"
IsSubmit(s) == s.handler = "POST /generate-toon"

\* The step writes 202: the row of the id it returns is there and pending,
\* and no processGeneration call exists for it before this step.
AcceptedOnPendingRow ==
    (IsSubmit(sent') /\ sent'.res.status = 202)
        => LET id == sent'.res.body.creationId
           IN  /\ id \in DOMAIN table /\ table[id].status = "pending"
               /\ id \notin DOMAIN run
               /\ id \in DOMAIN run' /\ run'[id].pc = "primary"
               /\ table' = table

\* C3 (as claimed): a 202 is written only when the row of its creationId
\* exists with status pending and its processGeneration has not started; and
\* every poll of an accepted id that is executed before the run's status
\* write gets 200 with status pending, never 404.
C3_PollSeesPending ==
    [][/\ AcceptedOnPendingRow
       /\ (IsPoll(sent') /\ Started(sent'.id) /\ hist'[sent'.id].writes = <<>>)
            => /\ sent'.res.status = 200
               /\ sent'.res.body.status = "pending"]_vars

\* C3 (amended): the same, for the polls whose select succeeds; a poll whose
\* select fails gets 404 although the row exists.
C3_PollSeesPendingUnlessReadFails ==
    [][/\ AcceptedOnPendingRow
       /\ (IsPoll(sent') /\ Started(sent'.id) /\ hist'[sent'.id].writes = <<>>)
            => IF sent'.select = "ok"
               THEN /\ sent'.res.status = 200
                    /\ sent'.res.body.id = sent'.id
                    /\ sent'.res.body.status = "pending"
               ELSE sent'.res.status = 404]_vars

\* A poll of an accepted id, answered 200 pending while its run is under way.
C3_Witness ==
    /\ IsPoll(sent) /\ Started(sent.id) /\ hist[sent.id].writes = <<>>
    /\ sent.res.status = 200 /\ sent.res.body.status = "pending"
    /\ run[sent.id].pc \in {"fallback", "upload", "completed_write", "failed_write"}

\* ------------------------------------------------------------ C4
\* C4: a settled run whose primary provider answered with bytes, whose upload
\* was stored and whose status write succeeded never called the fallback
\* provider, and its row is completed with a non-empty image_url and no
\* error_message.  (The fallback is not called after a primary success in
\* any state.)
C4_PrimarySuccessCompletes ==
    \A id \in DOMAIN run :
        Succeeded(hist[id].primary) =>
            /\ hist[id].fallback = <<>>
            /\ (Settled(id) /\ UploadStored(id) /\ WritesSucceeded(id))
                 => /\ table[id].status = "completed"
                    /\ ~Falsy(table[id].image_url) /\ table[id].image_url # Null
                    /\ table[id].error_message = Null

C4_Witness ==
    \E id \in DOMAIN run :
        /\ Succeeded(hist[id].primary) /\ Settled(id)
        /\ UploadStored(id) /\ WritesSucceeded(id)
        /\ table[id].status = "completed"

\* ------------------------------------------------------------ C5
\* C5: a settled run whose primary provider failed, whose fallback provider
\* answered with bytes, whose upload was stored and whose status write
\* succeeded has a completed row with image_url set and error_message unset:
\* the primary's error is in no field of the row.  (A fallback that answers
\* with bytes is followed by the upload of those bytes.)
C5_FallbackMasksPrimaryError ==
    \A id \in DOMAIN run :
        /\ (Failed(hist[id].primary) /\ Succeeded(hist[id].fallback))
            => /\ Len(hist[id].upload) = 1
               /\ hist[id].upload[1].bytes = hist[id].fallback[1].result.value
        /\ (/\ Failed(hist[id].primary) /\ Succeeded(hist[id].fallback)
            /\ Settled(id) /\ UploadStored(id) /\ WritesSucceeded(id))
            => /\ table[id].status = "completed"
               /\ table[id].image_url = PublicUrl(FilePath(run[id].userId, id))
               /\ table[id].error_message = Null
               /\ \A k \in 1..Len(hist[id].primary) :
                    hist[id].primary[k].result.message \notin
                        {table[id].image_url, table[id].error_message,
                         table[id].style_name, table[id].user_id, table[id].status}

C5_Witness ==
    \E id \in DOMAIN run :
        /\ Failed(hist[id].primary) /\ Succeeded(hist[id].fallback)
        /\ Settled(id) /\ UploadStored(id) /\ WritesSucceeded(id)
        /\ table[id].status = "completed"

\* ------------------------------------------------------------ C6
LastMessage(calls) == calls[Len(calls)].result.message

\* C6 (as claimed): a settled run whose primary and fallback providers both
\* failed attempted no upload, and its row is failed with the fallback's
\* error message.
C6_BothFailEndsFailed ==
    \A id \in DOMAIN run :
        (Settled(id) /\ Failed(hist[id].primary) /\ Failed(hist[id].fallback))
            => /\ hist[id].upload = <<>>
               /\ table[id].status = "failed"
               /\ table[id].error_message = LastMessage(hist[id].fallback)

\* ------------------------------------------------------------ C7
UploadReturnedError(id) ==
    \E k \in 1..Len(hist[id].upload) :
        hist[id].upload[k].result # None /\ hist[id].upload[k].result.kind = "error"

\* C7 (as claimed): once the upload of a run has returned an error, the row
\* is never completed and never has an image_url, and when the run has
\* settled the row is failed with the upload error's message.
C7_UploadErrorEndsFailed ==
    \A id \in DOMAIN run :
        UploadReturnedError(id)
            => /\ table[id].status # "completed"
               /\ table[id].image_url = Null
               /\ Settled(id)
                    => /\ table[id].status = "failed"
                       /\ table[id].error_message =
                              hist[id].upload[Len(hist[id].upload)].result.message

\* ------------------------------------------------------------ C8
HasMissing(b) == Falsy(b.imageDataUrl) \/ Falsy(b.stylePrompt) \/ Falsy(b.userId)

\* C8: a submit request with a missing or empty field is answered 400 in a
\* step that issues no insert, changes no row and starts no
\* processGeneration; no other answer is ever written for such a body, and
\* no insert is ever under way for one.
C8_MissingFieldRejected ==
    [][/\ (IsSubmit(sent') /\ HasMissing(sent'.body))
            => /\ sent'.res.status = 400
               /\ req' = req /\ table' = table /\ run' = run
               /\ hist' = hist /\ bucket' = bucket
       /\ (IsSubmit(sent') /\ sent'.res.status = 400) => HasMissing(sent'.body)
       /\ \A r \in Submits :
            req'[r].pc \in {"insert", "inserted"} => ~HasMissing(req'[r].body)]_vars

\* A 400 written while a row exists.
C8_Witness ==
    /\ IsSubmit(sent) /\ sent.res.status = 400 /\ HasMissing(sent.body)
    /\ DOMAIN table # {}

\* ------------------------------------------------------------ C9
\* C9: the step that resumes a submit handler whose insert returned an error
\* writes 500 with no creationId in the body and starts no processGeneration;
\* the handler is over after it (nothing is started later); and a 500 is
\* written by no other step.
C9_InsertFailureAnswers500 ==
    [][/\ \A r \in Submits :
            /\ (req[r].pc = "inserted" /\ req[r].result.error # Null /\ req'[r] # req[r])
                 => /\ IsSubmit(sent') /\ sent'.res.status = 500
                    /\ ~HasMissing(sent'.body)
                    /\ "creationId" \notin DOMAIN sent'.res.body
                    /\ run' = run /\ hist' = hist
                    /\ req'[r].pc = "done"
            /\ req[r].pc = "done" => req'[r] = req[r]
       /\ (IsSubmit(sent') /\ sent'.res.status = 500)
            => /\ run' = run
               /\ \E r \in Submits : req[r].pc = "inserted" /\ req[r].result.error # Null]_vars

C9_Witness ==
    /\ IsSubmit(sent) /\ sent.res.status = 500
    /\ \E r \in Submits : req[r].pc = "done" /\ req[r].result.error # Null
    /\ DOMAIN run = {}

\* ------------------------------------------------------------ C10
\* C10: a poll of an id that has no row, and a poll whose select fails, is
\* answered 404; a poll of an id that has a row (its select succeeding) is
\* answered 200 with the row's id and exactly the row's stored fields, whose
\* status is pending, completed or failed.
C10_PollAnswersStoredRow ==
    IsPoll(sent) =>
        IF sent.id \in DOMAIN table /\ sent.select = "ok"
        THEN /\ sent.res.status = 200
             /\ sent.res.body.id = sent.id
             /\ \A f \in DOMAIN table[sent.id] : sent.res.body[f] = table[sent.id][f]
             /\ DOMAIN sent.res.body = DOMAIN table[sent.id] \cup {"id"}
             /\ sent.res.body.status \in Statuses
        ELSE /\ sent.res.status = 404
             /\ DOMAIN sent.res.body = {"error"}

\* A poll answered 200 with a completed row and its public URL.
C10_Witness ==
    /\ IsPoll(sent) /\ sent.res.status = 200
    /\ sent.res.body.status = "completed"
    /\ sent.res.body.image_url = PublicUrl(FilePath(UserId, sent.id))

\* ------------------------------------------------------------ C11
\* C11 (as claimed): whatever the providers, the upload and the status
\* writes answer, the 'failed' update inside the catch block included, the
\* promise of the detached processGeneration call never rejects.
C11_NeverRejects ==
    \A id \in DOMAIN run : run[id].pc # "rejected"

\* ------------------------------------------------------------ C12
\* C12 (as claimed): a run whose calls have all answered leaves its row with
\* status completed or failed, also when a status write answered with an
\* error value instead of throwing.  (Once the run has resolved no step
\* writes its row again, so a row it leaves pending stays pending.)
C12_ResolvedRunLeavesTerminalRow ==
    \A id \in DOMAIN run :
        run[id].pc = "resolved" => table[id].status \in {"completed", "failed"}

\* ------------------------------------------------------------ C13
\* C13: a step that answers a poll changes no job record, no stored blob,
\* no submit handler and no running processGeneration (its position and the
\* calls it has made): the poll only reads.
C13_PollChangesNothing ==
    [][IsPoll(sent') => UNCHANGED <<table, bucket, req, run, hist>>]_vars

\* a poll was answered 200 with a pending row while the run of that job was
\* waiting for its 'completed' update, the blob already stored
C13_Witness ==
    /\ IsPoll(sent) /\ sent.res.status = 200 /\ sent.res.body.status = "pending"
    /\ sent.id \in DOMAIN run
    /\ run[sent.id].pc = "completed_write"
    /\ FilePath(UserId, sent.id) \in DOMAIN bucket

\* ------------------------------------------------------------ C15
\* the status writes a run has issued: those answered, and the one in flight
StatusWriteAttempts(id) ==
    Len(hist[id].writes)
        + (IF run[id].pc \in {"completed_write", "failed_write"} THEN 1 ELSE 0)

\* C15 (as claimed): a run issues at most one upload and, once it has
\* settled, exactly one status write; no second status write follows a
\* 'completed' write that failed or threw; each provider is called at most
\* once.
C15_OneUploadOneStatusWrite ==
    \A id \in DOMAIN run :
        /\ Len(hist[id].primary) <= 1
        /\ Len(hist[id].fallback) <= 1
        /\ Len(hist[id].upload) <= 1
        /\ StatusWriteAttempts(id) <= 1
        /\ Settled(id) => StatusWriteAttempts(id) = 1

\* ------------------------------------------------------------ C16
\* the fallback provider is configured in this build
FallbackConfigured == deployment = "index.js"

\* C16 (as claimed): every run calls the primary provider first and exactly
\* once; it calls the fallback provider if and only if the primary call
\* failed and a fallback is configured, at most once, after the primary has
\* answered and with the same image and style prompt; in the single-provider
\* build a run whose primary call failed calls nothing else and ends with
\* status failed and the primary's error message.
C16_PrimaryThenFallback ==
    \A id \in DOMAIN run :
        LET h == hist[id]
        IN  /\ Len(h.primary) = 1
            /\ Len(h.fallback) <= 1
            /\ (Len(h.fallback) = 1) <=> (Failed(h.primary) /\ FallbackConfigured)
            /\ Len(h.fallback) = 1
                  => /\ h.fallback[1].image_url = h.primary[1].image_url
                     /\ h.fallback[1].prompt = h.primary[1].prompt
                     /\ h.fallback[1].image_url = run[id].imageDataUrl
                     /\ h.fallback[1].prompt = UserText(run[id].stylePrompt)
            /\ (~FallbackConfigured /\ Failed(h.primary))
                  => /\ h.upload = <<>>
                     /\ run[id].pc \in {"failed_write", "resolved", "rejected"}
                     /\ run[id].error = h.primary[1].result.message
                     /\ Settled(id)
                           => /\ table[id].status = "failed"
                              /\ table[id].error_message = h.primary[1].result.message

\* ------------------------------------------------------------ C17
\* the run has issued its 'completed' update (answered or in flight)
CompletedWriteIssued(id) ==
    \/ run[id].pc = "completed_write"
    \/ \E k \in 1..Len(hist[id].writes) : hist[id].writes[k].status = "completed"

\* the provider calls of the run, and the bytes they returned to it
ProviderCalls(id) ==
    {hist[id].primary[k] : k \in 1..Len(hist[id].primary)}
        \cup {hist[id].fallback[k] : k \in 1..Len(hist[id].fallback)}
ProviderBytes(id) ==
    {c.result.value : c \in {d \in ProviderCalls(id) : d.result # None /\ d.result.ok}}

\* C17: in every state, a row with status completed belongs to a run whose
\* upload to {user_id}/{id}.png was stored, the bucket holds at that path the
\* bytes a provider returned, and image_url is the public URL of that path;
\* and a run has issued its 'completed' update only after a provider
\* returned bytes and the upload of those bytes was stored.
C17_CompletedMeansUploaded ==
    /\ \A id \in DOMAIN table :
          table[id].status = "completed"
            => LET filePath == FilePath(table[id].user_id, id)
               IN  /\ id \in DOMAIN run
                   /\ CompletedWriteIssued(id)
                   /\ filePath \in DOMAIN bucket
                   /\ bucket[filePath] \in ProviderBytes(id)
                   /\ table[id].image_url = PublicUrl(filePath)
    /\ \A id \in DOMAIN run :
          CompletedWriteIssued(id)
            => /\ ProviderBytes(id) # {}
               /\ UploadStored(id)
               /\ Len(hist[id].upload) = 1
               /\ hist[id].upload[1].path = FilePath(run[id].userId, id)
               /\ hist[id].upload[1].bytes \in ProviderBytes(id)

\* a row is completed; the blob at its path holds the bytes the primary
\* provider returned and image_url is the public URL of that path
C17_Witness ==
    \E id \in DOMAIN table :
        /\ table[id].status = "completed"
        /\ bucket[FilePath(UserId, id)] = Base64Decode("QUJD")
        /\ table[id].image_url = PublicUrl(FilePath(UserId, id))

\* ------------------------------------------------------------ C19
\* the submit handlers that have finished after a successful insert
AcceptedHandlers(rq) ==
    {r \in DOMAIN rq : rq[r].pc = "done" /\ rq[r].result.error = Null}

\* C19: processGeneration runs only for ids a successful insert returned to a
\* submit handler, and it is called exactly once per such id: the run is
\* started in the step in which its handler writes the 202 with that id, not
\* before, every handler that has accepted a request has started the run of
\* the row it created, and no id is given to processGeneration twice.
C19_StartedOncePerInsert ==
    [][/\ \A id \in DOMAIN run' :
             /\ id \in DOMAIN table'
             /\ hist'[id].starts = 1
             /\ hist'[id].request \in AcceptedHandlers(req')
             /\ req'[hist'[id].request].result.data.id = id
       /\ \A id \in DOMAIN run' \ DOMAIN run :
             /\ IsSubmit(sent') /\ sent'.res.status = 202
             /\ sent'.res.body.creationId = id
             /\ req[hist'[id].request].pc = "inserted"
       /\ \A r \in AcceptedHandlers(req') :
             /\ req'[r].result.data.id \in DOMAIN run'
             /\ hist'[req'[r].result.data.id].request = r
       /\ DOMAIN run \subseteq DOMAIN run']_vars

\* a run was started for the row of an accepted request and has settled,
\* one call of processGeneration having been made for it
C19_Witness ==
    \E r \in AcceptedHandlers(req) :
        /\ Settled(req[r].result.data.id)
        /\ hist[req[r].result.data.id].starts = 1
        /\ hist[req[r].result.data.id].request = r

\* ------------------------------------------------------------ C20
\* C20: a row appears only in the step in which the database executes a
\* submit handler's insert, with user_id and style_name the userId and the
\* stylePrompt of that request; a row never disappears; and a step that
\* changes a row is a status write of that row's own run which leaves
\* user_id and style_name alone and sets either status=completed and
\* image_url, or status=failed and error_message, nothing else.
C20_InsertOwnsIdentityFields ==
    [][\A id \in Ids :
        /\ (id \in DOMAIN table' /\ id \notin DOMAIN table)
              => \E r \in Submits :
                    /\ req[r].pc = "insert" /\ req'[r].pc = "inserted"
                    /\ req'[r].result.error = Null
                    /\ req'[r].result.data.id = id
                    /\ table'[id].user_id = req[r].body.userId
                    /\ table'[id].style_name = req[r].body.stylePrompt
        /\ id \in DOMAIN table
              => /\ id \in DOMAIN table'
                 /\ table'[id].user_id = table[id].user_id
                 /\ table'[id].style_name = table[id].style_name
                 /\ table'[id] # table[id]
                       => /\ id \in DOMAIN run
                          /\ \/ /\ run[id].pc = "completed_write"
                                /\ table'[id] = [table[id] EXCEPT
                                       !.status = "completed",
                                       !.image_url = table'[id].image_url]
                             \/ /\ run[id].pc = "failed_write"
                                /\ table'[id] = [table[id] EXCEPT
                                       !.status = "failed",
                                       !.error_message = table'[id].error_message]]_vars

\* a run has written its row (status failed with a message) and the row
\* still carries the userId and the stylePrompt of the request
C20_Witness ==
    \E id \in DOMAIN run :
        /\ Settled(id)
        /\ table[id].status = "failed" /\ table[id].error_message # Null
        /\ table[id].user_id = UserId /\ table[id].style_name = StylePrompt
        /\ UserId # StylePrompt

\* ------------------------------------------------------------ C18
\* the process exited while the run was waiting for a provider or for the
\* upload: it had not issued a status write
AbandonedBeforeWrite(pc) ==
    pc \in {"abandoned at primary", "abandoned at fallback",
            "abandoned at upload", "abandoned after upload"}

\* C18: the row of a run that was abandoned before it issued a status
\* write has status pending, and no later step (a poll, a request served
\* after the restart, another exit, a request the abandoned run had left
\* with the storage) changes that row or revives the run.
C18_AbandonedStaysPending ==
    [][\A id \in DOMAIN run :
        AbandonedBeforeWrite(run[id].pc)
          => /\ table[id].status = "pending"
             /\ table'[id] = table[id]
             /\ AbandonedBeforeWrite(run'[id].pc)]_vars

\* the process exited while a run waited for its upload; the storage stored
\* the blob all the same, and a later poll of the job was answered pending
C18_Witness ==
    /\ IsPoll(sent) /\ sent.res.status = 200 /\ sent.res.body.status = "pending"
    /\ sent.id \in DOMAIN run
    /\ run[sent.id].pc = "abandoned after upload"
    /\ FilePath(UserId, sent.id) \in DOMAIN bucket

\* ------------------------------------------------------------ C14
\* The message the run's catch block is given, read off the answers its
\* calls received: the upload's error, else the last provider's error, else
\* the rejection of the 'completed' update.
CaughtMessage(h) ==
    IF h.upload # <<>> /\ h.upload[1].result # None /\ h.upload[1].result.kind # "ok"
    THEN h.upload[1].result.message
    ELSE IF Failed(h.fallback) THEN h.fallback[1].result.message
    ELSE IF Failed(h.primary) /\ ~Succeeded(h.fallback) /\ h.upload = <<>>
    THEN h.primary[1].result.message
    ELSE WriteRejectMessage

\* One status write of the run of job id, applied to that job's row alone.
WriteAlone(row, w, id, userId, h) ==
    IF ~WriteApplied(w.outcome) THEN row
    ELSE IF w.status = "completed"
    THEN [row EXCEPT !.status = "completed",
                     !.image_url = PublicUrl(FilePath(userId, id))]
    ELSE [row EXCEPT !.status = "failed", !.error_message = CaughtMessage(h)]

\* The row job id has after its run, had the run been the only one: the
\* inserted row with the run's status writes applied in order.
RECURSIVE RowAlone(_, _, _, _, _)
RowAlone(row, k, id, userId, h) ==
    IF k > Len(h.writes) THEN row
    ELSE RowAlone(WriteAlone(row, h.writes[k], id, userId, h), k + 1, id, userId, h)

\* C14: with several jobs in progress, a step of the run of one job
\* changes no row but its own and no blob but {userId}/{its id}.png; and when
\* a run has settled, its row is what the answers to its own calls make it
\* (the row it would have alone) and its blob, if stored, holds its bytes.
C14_JobsDoNotInterfere ==
    [][\A id \in DOMAIN run :
        /\ run'[id] # run[id]
              => /\ \A j \in DOMAIN table \ {id} : table'[j] = table[j]
                 /\ DOMAIN table' = DOMAIN table
                 /\ \A p \in DOMAIN bucket' \ {FilePath(run[id].userId, id)} :
                        p \in DOMAIN bucket /\ bucket'[p] = bucket[p]
        /\ run'[id].pc \in {"resolved", "rejected"}
              => /\ table'[id] = RowAlone(NewRow(run'[id].userId, run'[id].stylePrompt),
                                         1, id, run'[id].userId, hist'[id])
                 /\ UploadStored(id)'
                       => bucket'[FilePath(run'[id].userId, id)] = run'[id].imageBuffer]_vars

\* two jobs side by side: one run has settled with its row completed and its
\* blob stored, the other is waiting for its 'failed' update; each blob path
\* carries its own job's id
C14_Witness ==
    \E a \in DOMAIN run, b \in DOMAIN run :
        /\ a # b
        /\ Settled(a) /\ table[a].status = "completed"
        /\ FilePath(UserId, a) \in DOMAIN bucket
        /\ run[b].pc = "failed_write" /\ table[b].status = "pending"
        /\ UploadFailed(b)

====
